---- MODULE Spec2Model ----
(***************************************************************************)
(* A model of generate_from_model.py: the start-up credential check, the   *)
(* four-phase pipeline of the main block, the parsing of the service's     *)
(* responses, the per-field translation loop and the run-by-run text       *)
(* substitution of the document filler.                                    *)
(*                                                                         *)
(* A Python str is a sequence of one-character strings.  Inside a JSON     *)
(* text the string literal of an object key is one symbol, written as the  *)
(* key's name: strip/lstrip/rstrip stop at it, because the literal starts  *)
(* and ends with a double quote, which none of the stripped character      *)
(* sets holds.  A Python dict is the sequence of its <<key, value>> pairs   *)
(* in insertion order, its keys distinct.                                  *)
(***************************************************************************)
EXTENDS Naturals, Sequences, FiniteSets, TLC

\* ------------------------------------------------------------------ bounds
\* Most runs in a paragraph of an enumerated model document.
MaxRuns == 2
\* Most characters in the text of a paragraph of an enumerated model document.
MaxParaLen == 3
\* Most junk characters put before the body of an enumerated service response.
MaxJunk == 1

\* ------------------------------------------------------------ Python values
PyStr(chars) == [kind |-> "str", s |-> chars]
PyNone == [kind |-> "none"]
PyInt(i) == [kind |-> "int", n |-> i]
PyList(xs) == [kind |-> "list", items |-> xs]
PyDict(ps) == [kind |-> "dict", pairs |-> ps]
EmptyDict == PyDict(<< >>)

\* bool(v): the truth value the if statements of the code test.
Truthy(v) ==
  CASE v.kind = "str" -> v.s # << >>
    [] v.kind = "none" -> FALSE
    [] v.kind = "int" -> v.n # 0
    [] v.kind = "list" -> v.items # << >>
    [] v.kind = "dict" -> v.pairs # << >>

DigitChar == <<"0", "1", "2", "3", "4", "5", "6", "7", "8", "9">>

\* str(v) of a scalar value (the values the enumerated mappings hold).
Str(v) ==
  CASE v.kind = "str" -> v.s
    [] v.kind = "none" -> <<"N", "o", "n", "e">>
    [] v.kind = "int" -> <<DigitChar[v.n + 1]>>

\* ------------------------------------------------------------- dict helpers
Keys(d) == {d.pairs[i][1] : i \in DOMAIN d.pairs}
KeyList(d) == [i \in DOMAIN d.pairs |-> d.pairs[i][1]]
IndexOf(d, k) == CHOOSE i \in DOMAIN d.pairs : d.pairs[i][1] = k
\* d[k]
Get(d, k) == d.pairs[IndexOf(d, k)][2]
\* d[k] = v: a present key keeps its place, a new key goes last.
DictSet(d, k, v) ==
  IF k \in Keys(d)
    THEN PyDict([d.pairs EXCEPT ![IndexOf(d, k)] = <<k, v>>])
    ELSE PyDict(Append(d.pairs, <<k, v>>))
\* `k in v` for a key name k: on a dict, membership among its keys; the lists
\* of the enumerated responses hold numbers only, which no str equals.
In(k, v) ==
  CASE v.kind = "dict" -> k \in Keys(v)
    [] v.kind = "list" -> FALSE

\* ------------------------------------------------------------ str operations
Whitespace == {" ", "\n", "\t"}

RECURSIVE LStripChars(_, _)
\* s.lstrip(chars): drops every leading character that is in the set chars.
LStripChars(s, chars) ==
  IF s # << >> /\ Head(s) \in chars THEN LStripChars(Tail(s), chars) ELSE s

RECURSIVE RStripChars(_, _)
\* s.rstrip(chars): drops every trailing character that is in the set chars.
RStripChars(s, chars) ==
  IF s # << >> /\ s[Len(s)] \in chars
    THEN RStripChars(SubSeq(s, 1, Len(s) - 1), chars)
    ELSE s

\* s.strip()
Strip(s) == RStripChars(LStripChars(s, Whitespace), Whitespace)

\* Whether sub occurs in s starting at position i.
MatchAt(s, sub, i) ==
  /\ i + Len(sub) - 1 <= Len(s)
  /\ \A j \in 1..Len(sub) : s[i + j - 1] = sub[j]

\* `sub in s`
Contains(s, sub) == \E i \in 1..(Len(s) + 1) : MatchAt(s, sub, i)

RECURSIVE ReplaceFrom(_, _, _, _)
\* s[i:].replace(old, new) for a non-empty old: leftmost occurrences first,
\* never overlapping, the text put in not searched again.
ReplaceFrom(s, old, new, i) ==
  IF i > Len(s) THEN << >>
  ELSE IF MatchAt(s, old, i) THEN new \o ReplaceFrom(s, old, new, i + Len(old))
  ELSE <<s[i]>> \o ReplaceFrom(s, old, new, i + 1)

RECURSIVE Interleave(_, _, _)
\* s[i:] with new put before each of its characters.
Interleave(s, new, i) ==
  IF i > Len(s) THEN << >> ELSE new \o <<s[i]>> \o Interleave(s, new, i + 1)

\* s.replace(old, new): with an empty old Python puts new before every
\* character and at the end.
Replace(s, old, new) ==
  IF old = << >> THEN Interleave(s, new, 1) \o new ELSE ReplaceFrom(s, old, new, 1)

RECURSIVE Join(_, _)
\* sep.join(parts)
Join(parts, sep) ==
  IF parts = << >> THEN << >>
  ELSE IF Len(parts) = 1 THEN parts[1]
  ELSE parts[1] \o sep \o Join(Tail(parts), sep)

RECURSIVE Concat(_)
\* "".join(parts)
Concat(parts) == IF parts = << >> THEN << >> ELSE Head(parts) \o Concat(Tail(parts))

\* --------------------------------------------------------------------- JSON
\* json.dumps of a scalar, in the compact form the enumerated responses use.
DumpsScalar(v) ==
  CASE v.kind = "str" -> <<"\"">> \o v.s \o <<"\"">>
    [] v.kind = "none" -> <<"n", "u", "l", "l">>
    [] v.kind = "int" -> <<DigitChar[v.n + 1]>>

\* The JSON text of a value: an object's members and an array's items are
\* scalars; a key's string literal is the one symbol named after the key.
Dumps(v) ==
  CASE v.kind = "dict" ->
         <<"{">> \o Join([i \in DOMAIN v.pairs |->
                           <<v.pairs[i][1], ":">> \o DumpsScalar(v.pairs[i][2])],
                         <<",">>) \o <<"}">>
    [] v.kind = "list" ->
         <<"[">> \o Join([i \in DOMAIN v.items |-> DumpsScalar(v.items[i])],
                         <<",">>) \o <<"]">>
    [] OTHER -> DumpsScalar(v)

\* The keys the enumerated mappings use: two of FIELDS_TO_TRANSLATE and one
\* key that is not designated for translation.
T == PyStr(<<"T">>)
P == PyStr(<<"P">>)
H == PyStr(<<"H">>)
K == PyStr(<<"K">>)
G == PyStr(<<"G">>)
Empty == PyStr(<< >>)

\* The JSON values the enumerated responses carry.
JsonDocs ==
  { PyDict(<< <<"document_title", T>>, <<"product_name", P>> >>),
    PyDict(<< <<"document_title", T>>, <<"ppe_notes", P>> >>),
    PyDict(<< <<"product_name", P>> >>),
    PyDict(<< <<"document_title", H>>, <<"product_name", K>>, <<"ppe_notes", G>> >>),
    PyDict(<< <<"ppe_notes", G>>, <<"document_title", Empty>> >>),
    PyDict(<< <<"product_name", PyNone>>, <<"ppe_notes", PyInt(0)>> >>),
    PyDict(<< <<"document_title", PyInt(2)>> >>),
    EmptyDict,
    PyList(<<PyInt(1)>>),
    PyList(<< >>),
    PyNone,
    PyInt(0),
    PyInt(5),
    Empty }

\* json.loads(text): the value whose JSON text this is, or a failure
\* (json.JSONDecodeError) when it is the text of none.
JsonLoads(text) ==
  IF \E v \in JsonDocs : Dumps(v) = text
    THEN [ok |-> TRUE, val |-> CHOOSE v \in JsonDocs : Dumps(v) = text]
    ELSE [ok |-> FALSE]

\* The backtick character, which a TLA+ string cannot hold.
Backtick == "<backtick>"

\* The characters of the argument of lstrip("```json"), and of rstrip("```").
FencePrefixChars == {Backtick, "j", "s", "o", "n"}
FenceSuffixChars == {Backtick}

\* response.text.strip().lstrip("```json").rstrip("```").strip()
StripFence(text) ==
  Strip(RStripChars(LStripChars(Strip(text), FencePrefixChars), FenceSuffixChars))

\* What model.generate_content gave: a response with its text, or an exception.
ServiceError == [error |-> TRUE]
Response(text) == [error |-> FALSE, text |-> text]
NoResponse == [error |-> FALSE, none |-> TRUE]

\* The try block of infer_placeholders_with_gemini, from the response on.
InferPlaceholdersResult(resp) ==
  IF resp.error THEN EmptyDict
  ELSE LET r == JsonLoads(StripFence(resp.text))
       IN IF r.ok THEN r.val ELSE EmptyDict

\* The try block of get_data_from_gemini, from the response on.
GetDataResult(resp) ==
  IF resp.error THEN EmptyDict
  ELSE LET r == JsonLoads(StripFence(resp.text))
       IN IF r.ok THEN r.val ELSE EmptyDict

\* ------------------------------------------------------ enumerated responses
RECURSIVE SeqsUpTo(_, _)
\* Every sequence over S of length at most n.
SeqsUpTo(S, n) ==
  IF n = 0 THEN {<< >>}
  ELSE LET shorter == SeqsUpTo(S, n - 1)
       IN shorter \cup {<<x>> \o s : x \in S, s \in {t \in shorter : Len(t) = n - 1}}

FenceOpen == <<Backtick, Backtick, Backtick, "j", "s", "o", "n">>
FenceClose == <<Backtick, Backtick, Backtick>>

JunkChars == {Backtick, "j", "n"}
ResponsePrefixes ==
  {FenceOpen, FenceOpen \o <<"\n">>, <<" ">>} \cup SeqsUpTo(JunkChars, MaxJunk)
ResponseSuffixes == {<< >>, FenceClose, <<"\n">> \o FenceClose, <<Backtick>>, <<" ">>}
\* Bodies that are the JSON text of a value, and bodies that are not JSON.
ResponseBodies ==
  {Dumps(v) : v \in JsonDocs}
    \cup {<<"{", "document_title", ":">>, <<"n", "o">>, << >>}
ResponseTexts ==
  {p \o b \o s : p \in ResponsePrefixes, b \in ResponseBodies, s \in ResponseSuffixes}
ServiceOutcomes == {ServiceError} \cup {Response(t) : t \in ResponseTexts}

\* --------------------------------------------------------------- documents
\* A document as python-docx presents it: doc.paragraphs, and doc.tables as
\* rows of cells of paragraphs; a paragraph is the sequence of its runs'
\* texts, and its text is their concatenation.
Document(ps, ts) == [readable |-> TRUE, paragraphs |-> ps, tables |-> ts]
\* A path Document() or fitz.open() raises on, and the variable doc before
\* generate_final_document has loaded anything.
Unreadable == [readable |-> FALSE]

\* p.text
ParaText(p) == Concat(p)
\* cell.text
CellText(c) == Join([i \in DOMAIN c |-> ParaText(c[i])], <<"\n">>)

RECURSIVE Flatten(_)
\* The members of a sequence of sequences, in order.
Flatten(ss) == IF ss = << >> THEN << >> ELSE Head(ss) \o Flatten(Tail(ss))

\* Every cell of the document's tables: table by table, row by row.
CellsOf(d) == Flatten(Flatten(d.tables))

\* The value extract_text_from_docx returns.
ExtractTextFromDocx(file) ==
  IF ~file.readable THEN PyStr(<< >>)
  ELSE PyStr(Join([i \in DOMAIN file.paragraphs |-> ParaText(file.paragraphs[i])]
                    \o [i \in DOMAIN CellsOf(file) |-> CellText(CellsOf(file)[i])],
                  <<"\n">>))

\* A PDF file: the texts of its pages.
Pdf(pages) == [readable |-> TRUE, pages |-> pages]

\* The value extract_text_from_pdf returns.
ExtractTextFromPdf(file) ==
  IF ~file.readable THEN PyNone ELSE PyStr(Concat(file.pages))

\* A faulty variant of ReplaceInParagraph: the entry is applied to the
\* paragraph's whole text, which is put into its first run, the others emptied.
ReplaceInParagraphText(p, old, new) ==
  IF Contains(ParaText(p), old)
    THEN [i \in DOMAIN p |-> IF i = 1 THEN Replace(ParaText(p), old, new) ELSE << >>]
    ELSE p

\* The inner loop of docx_replace on one paragraph, for one entry.
ReplaceInParagraph(p, old, new) ==
  IF Contains(ParaText(p), old)
    THEN [i \in DOMAIN p |-> IF Contains(p[i], old) THEN Replace(p[i], old, new) ELSE p[i]]
    ELSE p

\* A faulty variant of DocxReplaceEntry: the loop over the tables is missing.
DocxReplaceEntryBodyOnly(d, old, new) ==
  [d EXCEPT
     !.paragraphs = [i \in DOMAIN d.paragraphs |->
                       ReplaceInParagraph(d.paragraphs[i], old, new)]]

\* One iteration of the outer loop of docx_replace: the entry applied to the
\* body paragraphs, then to the paragraphs of every cell of every table.
DocxReplaceEntry(d, old, new) ==
  [d EXCEPT
     !.paragraphs = [i \in DOMAIN d.paragraphs |->
                       ReplaceInParagraph(d.paragraphs[i], old, new)],
     !.tables = [t \in DOMAIN d.tables |->
                  [r \in DOMAIN d.tables[t] |->
                    [c \in DOMAIN d.tables[t][r] |->
                      [q \in DOMAIN d.tables[t][r][c] |->
                        ReplaceInParagraph(d.tables[t][r][c][q], old, new)]]]]]

RECURSIVE BuildReplacements(_, _, _)
\* The replacements dict of generate_final_document once the loop has looked
\* at the first n items of template_data.
BuildReplacements(template_data, final_data, n) ==
  IF n = 0 THEN EmptyDict
  ELSE LET key == template_data.pairs[n][1]
           old_value == template_data.pairs[n][2]
           acc == BuildReplacements(template_data, final_data, n - 1)
       IN IF In(key, final_data)
            THEN DictSet(acc, Str(old_value), Str(Get(final_data, key)))
            ELSE acc

\* ------------------------------------------------------------ the main block
FIELDS_TO_TRANSLATE ==
  <<"document_title", "document_subtitle", "pictogram_notes", "ppe_header",
    "ppe_notes", "hmis_table_header_category", "hmis_table_header_rating",
    "hmis_health_category_label", "hmis_flammability_category_label",
    "hmis_physical_hazard_category_label", "hmis_ppe_category_label">>

NumFields == Len(FIELDS_TO_TRANSLATE)

\* A faulty variant of ApiKeyConfigured: only an unset variable is refused.
ApiKeyConfiguredUnsetOnly(key) == key # PyNone

\* `if not api_key` of the configuration block: whether start-up goes on.
ApiKeyConfigured(key) == Truthy(key)

\* `if template_text:` where the main block goes after extract_text_from_docx.
AfterTemplateText(text) == IF Truthy(text) THEN "infer_call" ELSE "done"
\* Faulty variants of AfterInfer: the result is not tested; the call is made
\* again when the result is falsy.
AfterInferUntested(data) == "read_pdf"
AfterInferRetry(data) == IF Truthy(data) THEN "read_pdf" ELSE "infer_call"

\* `if inferred_template_data:`
AfterInfer(data) == IF Truthy(data) THEN "read_pdf" ELSE "done"
\* `if pdf_text:`
AfterPdfText(text) == IF Truthy(text) THEN "extract_call" ELSE "done"
\* `if final_extracted_data:`
AfterExtract(data) == IF Truthy(data) THEN "translate" ELSE "done"

\* A faulty variant of ShouldTranslate: an empty value is translated too.
ShouldTranslateAnyValue(data_dict, field) == In(field, data_dict)

\* `if field in data_dict and data_dict[field]` of translate_fields.
ShouldTranslate(data_dict, field) ==
  In(field, data_dict) /\ Truthy(Get(data_dict, field))

\* A faulty variant of TranslateField: a failed call empties the value.
TranslateFieldClearsOnError(data_dict, field, outcome) ==
  IF outcome.error THEN DictSet(data_dict, field, PyStr(<< >>))
  ELSE DictSet(data_dict, field, PyStr(Strip(outcome.text)))

\* The body of the try statement of translate_fields for one field: the
\* stripped response text is stored; an exception leaves the dict as it is.
TranslateField(data_dict, field, outcome) ==
  IF outcome.error THEN data_dict
  ELSE DictSet(data_dict, field, PyStr(Strip(outcome.text)))

\* Where translate_fields is after the field at index i: at the next field,
\* or returned to the main block, which calls generate_final_document.
AfterField(i) == IF i < NumFields THEN "translate" ELSE "generate"

\* ------------------------------------------------------------------- inputs
PipelineDocs ==
  { Unreadable,
    Document(<< >>, << >>),
    Document(<< << >> >>, << >>),
    Document(<< <<<<"T">>, <<" ">>>>, <<<<"P">>>> >>,
             << << << << <<<<"T">>, <<"P">>>> >>, << <<<<"2">>>> >> >> >> >>) }

PdfFiles == {Unreadable, Pdf(<< >>), Pdf(<< <<"x">>, <<"y">> >>)}

ApiKeys == {PyNone, PyStr(<< >>), PyStr(<<"k">>)}

TranslationTexts == {<<" ", "H", "\n">>, <<"X">>, <<" ">>}
TranslateOutcomes == {ServiceError} \cup {Response(t) : t \in TranslationTexts}

\* -------------------------------------------------------------------- state
VARIABLES
  pc,                      \* where the script is
  api_key,                 \* os.getenv("GOOGLE_API_KEY")
  model_docx,              \* the file at MODEL_DOCX_PATH
  pdf_file,                \* the file at INPUT_PDF_PATH
  template_text,
  inferred_template_data,
  pdf_text,
  final_extracted_data,    \* the dict translate_fields mutates and returns
  data_at_entry,           \* final_extracted_data as get_data_from_gemini returned it
  response,                \* the local `response` of the function waiting on the service
  tidx,                    \* index into FIELDS_TO_TRANSLATE of the field being looked at
  doc,                     \* the Document generate_final_document has loaded
  replacements,
  ridx,                    \* index of the entry of replacements docx_replace is at
  output_file,             \* the file at OUTPUT_DOCX_PATH
  events                   \* the file reads, service calls and file writes so far

vars ==
  <<pc, api_key, model_docx, pdf_file, template_text, inferred_template_data,
    pdf_text, final_extracted_data, data_at_entry, response, tidx, doc,
    replacements, ridx, output_file, events>>

NoFile == [exists |-> FALSE]
WrittenFile(d) == [exists |-> TRUE, partial |-> FALSE, doc |-> d]
PartialFile == [exists |-> TRUE, partial |-> TRUE]

Event(kind) == [kind |-> kind]
TranslateEvent(field, outcome) == [kind |-> "translate", field |-> field, outcome |-> outcome]

Init ==
  /\ pc = "config"
  /\ api_key \in ApiKeys
  /\ model_docx \in PipelineDocs
  /\ pdf_file \in PdfFiles
  /\ template_text = PyNone
  /\ inferred_template_data = PyNone
  /\ pdf_text = PyNone
  /\ final_extracted_data = PyNone
  /\ data_at_entry = PyNone
  /\ response = NoResponse
  /\ tidx = 1
  /\ doc = Unreadable
  /\ replacements = EmptyDict
  /\ ridx = 1
  /\ output_file = NoFile
  /\ events = << >>

\* Lines 9-20: without a credential the script prints and exits.
Configure ==
  /\ pc = "config"
  /\ pc' = IF ApiKeyConfigured(api_key) THEN "read_model" ELSE "exited"
  /\ UNCHANGED <<api_key, model_docx, pdf_file, template_text, inferred_template_data,
                 pdf_text, final_extracted_data, data_at_entry, response, tidx, doc,
                 replacements, ridx, output_file, events>>

\* Lines 203-204.
ReadModel ==
  /\ pc = "read_model"
  /\ template_text' = ExtractTextFromDocx(model_docx)
  /\ events' = Append(events, Event("read_model"))
  /\ pc' = AfterTemplateText(template_text')
  /\ UNCHANGED <<api_key, model_docx, pdf_file, inferred_template_data, pdf_text,
                 final_extracted_data, data_at_entry, response, tidx, doc,
                 replacements, ridx, output_file>>

\* Line 62: infer_placeholders_with_gemini blocks on the service.
InferCall ==
  /\ pc = "infer_call"
  /\ \E outcome \in ServiceOutcomes : response' = outcome
  /\ events' = Append(events, Event("infer_call"))
  /\ pc' = "infer_parse"
  /\ UNCHANGED <<api_key, model_docx, pdf_file, template_text, inferred_template_data,
                 pdf_text, final_extracted_data, data_at_entry, tidx, doc,
                 replacements, ridx, output_file>>

\* Lines 63-70 and 207.
InferReturn ==
  /\ pc = "infer_parse"
  /\ inferred_template_data' = InferPlaceholdersResult(response)
  /\ response' = NoResponse
  /\ pc' = AfterInfer(inferred_template_data')
  /\ UNCHANGED <<api_key, model_docx, pdf_file, template_text, pdf_text,
                 final_extracted_data, data_at_entry, tidx, doc, replacements, ridx,
                 output_file, events>>

\* Lines 209-210.
ReadPdf ==
  /\ pc = "read_pdf"
  /\ pdf_text' = ExtractTextFromPdf(pdf_file)
  /\ events' = Append(events, Event("read_pdf"))
  /\ pc' = AfterPdfText(pdf_text')
  /\ UNCHANGED <<api_key, model_docx, pdf_file, template_text, inferred_template_data,
                 final_extracted_data, data_at_entry, response, tidx, doc,
                 replacements, ridx, output_file>>

\* Lines 211-212 with a truthy inferred_template_data that is no dict: it has
\* no keys(), and the AttributeError ends the script.
KeysCrash ==
  /\ pc = "extract_call"
  /\ inferred_template_data.kind # "dict"
  /\ pc' = "crashed"
  /\ UNCHANGED <<api_key, model_docx, pdf_file, template_text, inferred_template_data,
                 pdf_text, final_extracted_data, data_at_entry, response, tidx, doc,
                 replacements, ridx, output_file, events>>

\* Line 102: get_data_from_gemini blocks on the service.
ExtractCall ==
  /\ pc = "extract_call"
  /\ inferred_template_data.kind = "dict"
  /\ \E outcome \in ServiceOutcomes : response' = outcome
  /\ events' = Append(events, Event("extract_call"))
  /\ pc' = "extract_parse"
  /\ UNCHANGED <<api_key, model_docx, pdf_file, template_text, inferred_template_data,
                 pdf_text, final_extracted_data, data_at_entry, tidx, doc,
                 replacements, ridx, output_file>>

\* Lines 103-108 and 214.
ExtractReturn ==
  /\ pc = "extract_parse"
  /\ final_extracted_data' = GetDataResult(response)
  /\ data_at_entry' = final_extracted_data'
  /\ response' = NoResponse
  /\ pc' = AfterExtract(final_extracted_data')
  /\ UNCHANGED <<api_key, model_docx, pdf_file, template_text, inferred_template_data,
                 pdf_text, tidx, doc, replacements, ridx, output_file, events>>

\* Line 116 with a truthy final_extracted_data that is a number: `field in
\* data_dict` raises a TypeError outside the try statement, which ends the script.
TranslateCrash ==
  /\ pc = "translate"
  /\ final_extracted_data.kind = "int"
  /\ pc' = "crashed"
  /\ UNCHANGED <<api_key, model_docx, pdf_file, template_text, inferred_template_data,
                 pdf_text, final_extracted_data, data_at_entry, response, tidx, doc,
                 replacements, ridx, output_file, events>>

\* Lines 115-116, the condition false: the field is passed over.
TranslateSkip ==
  /\ pc = "translate"
  /\ final_extracted_data.kind \in {"dict", "list"}
  /\ ~ShouldTranslate(final_extracted_data, FIELDS_TO_TRANSLATE[tidx])
  /\ pc' = AfterField(tidx)
  /\ tidx' = tidx + 1
  /\ UNCHANGED <<api_key, model_docx, pdf_file, template_text, inferred_template_data,
                 pdf_text, final_extracted_data, data_at_entry, response, doc,
                 replacements, ridx, output_file, events>>

\* Lines 115-125, the condition true: one service call, whose text is stored
\* or whose exception is reported.
TranslateCall ==
  /\ pc = "translate"
  /\ final_extracted_data.kind \in {"dict", "list"}
  /\ ShouldTranslate(final_extracted_data, FIELDS_TO_TRANSLATE[tidx])
  /\ \E outcome \in TranslateOutcomes :
       /\ final_extracted_data' =
            TranslateField(final_extracted_data, FIELDS_TO_TRANSLATE[tidx], outcome)
       /\ events' = Append(events, TranslateEvent(FIELDS_TO_TRANSLATE[tidx], outcome))
  /\ pc' = AfterField(tidx)
  /\ tidx' = tidx + 1
  /\ UNCHANGED <<api_key, model_docx, pdf_file, template_text, inferred_template_data,
                 pdf_text, data_at_entry, response, doc, replacements, ridx,
                 output_file>>

\* Lines 159-167: the model document is loaded and the replacements are built.
GenerateLoad ==
  /\ pc = "generate"
  /\ model_docx.readable
  /\ doc' = model_docx
  /\ replacements' = BuildReplacements(inferred_template_data, final_extracted_data,
                                       Len(inferred_template_data.pairs))
  /\ ridx' = 1
  /\ events' = Append(events, Event("load_model"))
  /\ pc' = "replace"
  /\ UNCHANGED <<api_key, model_docx, pdf_file, template_text, inferred_template_data,
                 pdf_text, final_extracted_data, data_at_entry, response, tidx,
                 output_file>>

\* Lines 159 and 173-174: Document(template_path) raises; nothing is written.
GenerateLoadFails ==
  /\ pc = "generate"
  /\ events' = Append(events, Event("load_model"))
  /\ pc' = "done"
  /\ UNCHANGED <<api_key, model_docx, pdf_file, template_text, inferred_template_data,
                 pdf_text, final_extracted_data, data_at_entry, response, tidx, doc,
                 replacements, ridx, output_file>>

\* Lines 131-152: one entry of replacements applied to the whole document.
ReplaceStep ==
  /\ pc = "replace"
  /\ ridx <= Len(replacements.pairs)
  /\ doc' = DocxReplaceEntry(doc, replacements.pairs[ridx][1], replacements.pairs[ridx][2])
  /\ ridx' = ridx + 1
  /\ UNCHANGED <<pc, api_key, model_docx, pdf_file, template_text,
                 inferred_template_data, pdf_text, final_extracted_data, data_at_entry,
                 response, tidx, replacements, output_file, events>>

\* Line 170: doc.save(output_path).
Save ==
  /\ pc = "replace"
  /\ ridx > Len(replacements.pairs)
  /\ output_file' = WrittenFile(doc)
  /\ events' = Append(events, Event("write_output"))
  /\ pc' = "done"
  /\ UNCHANGED <<api_key, model_docx, pdf_file, template_text, inferred_template_data,
                 pdf_text, final_extracted_data, data_at_entry, response, tidx, doc,
                 replacements, ridx>>

\* Lines 170 and 173-174: doc.save raises; what it had written stays.
SaveFails ==
  /\ pc = "replace"
  /\ ridx > Len(replacements.pairs)
  /\ output_file' \in {NoFile, PartialFile}
  /\ events' = Append(events, Event("write_output"))
  /\ pc' = "done"
  /\ UNCHANGED <<api_key, model_docx, pdf_file, template_text, inferred_template_data,
                 pdf_text, final_extracted_data, data_at_entry, response, tidx, doc,
                 replacements, ridx>>

Next ==
  \/ Configure
  \/ ReadModel
  \/ InferCall
  \/ InferReturn
  \/ ReadPdf
  \/ KeysCrash
  \/ ExtractCall
  \/ ExtractReturn
  \/ TranslateCrash
  \/ TranslateSkip
  \/ TranslateCall
  \/ GenerateLoad
  \/ GenerateLoadFails
  \/ ReplaceStep
  \/ Save
  \/ SaveFails

Spec == Init /\ [][Next]_vars

\* ------------------------------------------- the document filler on its own
\* generate_final_document entered with mappings and a model document drawn
\* from bounded sets: the state of a run whose four phases gave truthy results
\* and whose data holds no field of FIELDS_TO_TRANSLATE.
Alphabet == {"a", "b"}
RunTexts == SeqsUpTo(Alphabet, MaxParaLen) \ {<< >>}
Paragraphs == {p \in SeqsUpTo(RunTexts, MaxRuns) : Len(Concat(p)) <= MaxParaLen}

\* The text "ab" held by two runs, "a" and "b".
SplitParagraph == << <<"a">>, <<"b">> >>

\* A document holding p in its body and in a table cell, beside SplitParagraph.
FillDoc(p) ==
  Document(<<p, SplitParagraph>>, << << << <<p>>, <<SplitParagraph>> >> >> >>)
FillDocs == {FillDoc(p) : p \in Paragraphs}

ExampleValues == {PyStr(<<"a">>), PyStr(<<"a", "b">>), PyStr(<<"b">>), PyStr(<< >>)}
NewValues == {PyStr(<<"b">>), PyStr(<<"a", "a">>), PyNone}

\* The non-empty dicts over the keys name and parent with values from V.
DictsOver(V) ==
  {PyDict(<< <<k, v>> >>) : k \in {"name", "parent"}, v \in V}
    \cup {PyDict(<< <<"name", v>>, <<"parent", w>> >>) : v \in V, w \in V}

FillTemplates == DictsOver(ExampleValues)
FillFinals == DictsOver(NewValues)

InitFill ==
  /\ pc = "generate"
  /\ api_key = PyStr(<<"k">>)
  /\ model_docx \in FillDocs
  /\ pdf_file = Pdf(<< <<"x">>, <<"y">> >>)
  /\ template_text = ExtractTextFromDocx(model_docx)
  /\ inferred_template_data \in FillTemplates
  /\ pdf_text = ExtractTextFromPdf(pdf_file)
  /\ final_extracted_data \in FillFinals
  /\ data_at_entry = final_extracted_data
  /\ response = NoResponse
  /\ tidx = NumFields + 1
  /\ doc = Unreadable
  /\ replacements = EmptyDict
  /\ ridx = 1
  /\ output_file = NoFile
  /\ events = <<Event("read_model"), Event("infer_call"), Event("read_pdf"),
                Event("extract_call")>>

NextFill ==
  \/ GenerateLoad
  \/ GenerateLoadFails
  \/ ReplaceStep
  \/ Save
  \/ SaveFails

SpecFill == InitFill /\ [][NextFill]_vars

\* ------------------------------------------------------------------- claims
HasEvent(kind) == \E i \in DOMAIN events : events[i].kind = kind
EventKinds == [i \in DOMAIN events |-> events[i].kind]
FieldIndex(f) == CHOOSE i \in 1..NumFields : FIELDS_TO_TRANSLATE[i] = f
Designated == {FIELDS_TO_TRANSLATE[i] : i \in 1..NumFields}
TranslateEventsOf(f) ==
  {i \in DOMAIN events : events[i].kind = "translate" /\ events[i].field = f}
\* A key the translation loop calls the service for: present, its value non-empty.
Live(d, f) == f \in Keys(d) /\ Truthy(Get(d, f))
Written == output_file.exists /\ ~output_file.partial

\* C1: once a phase has returned a falsy result (empty template text, empty
\* inferred mapping, absent or empty PDF text, empty extracted mapping) the
\* run is over with exactly the events up to that phase: no later read, no
\* later service call, no translation, no load and no write of the output.
C1_FalsyPhaseHalts ==
  /\ (HasEvent("read_model") /\ ~Truthy(template_text))
       => /\ EventKinds = <<"read_model">>
          /\ pc = "done" /\ output_file = NoFile /\ doc = Unreadable
  /\ (HasEvent("infer_call") /\ pc # "infer_parse" /\ ~Truthy(inferred_template_data))
       => /\ EventKinds = <<"read_model", "infer_call">>
          /\ pc = "done" /\ output_file = NoFile /\ doc = Unreadable
  /\ (HasEvent("read_pdf") /\ ~Truthy(pdf_text))
       => /\ EventKinds = <<"read_model", "infer_call", "read_pdf">>
          /\ pc = "done" /\ output_file = NoFile /\ doc = Unreadable
  /\ (HasEvent("extract_call") /\ pc # "extract_parse" /\ ~Truthy(data_at_entry))
       => /\ EventKinds = <<"read_model", "infer_call", "read_pdf", "extract_call">>
          /\ pc = "done" /\ output_file = NoFile /\ doc = Unreadable

\* The data-extraction call answered with text that is no JSON, after three
\* truthy phases.
C1_Witness ==
  /\ pc = "done"
  /\ EventKinds = <<"read_model", "infer_call", "read_pdf", "extract_call">>
  /\ data_at_entry = EmptyDict
  /\ Truthy(inferred_template_data)

\* C2: with GOOGLE_API_KEY unset or empty the script never leaves the
\* configuration block except to exit: nothing is read, no service is called
\* and nothing is written.
C2_NoCredentialNoPipeline ==
  ~Truthy(api_key)
    => /\ pc \in {"config", "exited"}
       /\ events = << >>
       /\ template_text = PyNone /\ pdf_text = PyNone
       /\ inferred_template_data = PyNone /\ final_extracted_data = PyNone
       /\ doc = Unreadable /\ output_file = NoFile

C2_Witness == pc = "exited" /\ api_key = PyStr(<< >>)

\* C3: for every designated key the loop has passed that was present with a
\* non-empty value, one service call was made; if it succeeded the key holds
\* the stripped translated text, if it failed the key holds its original
\* value.  On a mapping the loop never stops early: while inside it a step
\* is possible, a run that made a translation call never crashes or exits,
\* and generate_final_document is entered only with every field looked at.
C3_PerFieldFaultTolerance ==
  /\ (data_at_entry.kind = "dict" /\ Truthy(data_at_entry))
       => \A i \in 1..NumFields :
            (i < tidx /\ Live(data_at_entry, FIELDS_TO_TRANSLATE[i]))
              => LET f == FIELDS_TO_TRANSLATE[i]
                 IN /\ Cardinality(TranslateEventsOf(f)) = 1
                    /\ \A e \in TranslateEventsOf(f) :
                         Get(final_extracted_data, f) =
                           IF events[e].outcome.error
                             THEN Get(data_at_entry, f)
                             ELSE PyStr(Strip(events[e].outcome.text))
  /\ (pc = "translate" /\ data_at_entry.kind = "dict")
       => (tidx <= NumFields /\ ENABLED (TranslateSkip \/ TranslateCall))
  /\ HasEvent("translate") => pc \in {"translate", "generate", "replace", "done"}
  /\ (pc \in {"generate", "replace"} \/ HasEvent("load_model")) => tidx = NumFields + 1

\* generate_final_document has been entered after the translation of
\* document_title failed and the translation of the later ppe_notes succeeded.
C3_Witness ==
  /\ HasEvent("load_model")
  /\ \E i, j \in DOMAIN events :
       /\ i < j
       /\ events[i].kind = "translate" /\ events[i].outcome.error
       /\ events[j].kind = "translate" /\ ~events[j].outcome.error
       /\ Get(final_extracted_data, events[i].field) = Get(data_at_entry, events[i].field)
       /\ Get(final_extracted_data, events[j].field) # Get(data_at_entry, events[j].field)

\* s without the literal prefix pre, when it starts with it.
RemovePrefix(s, pre) ==
  IF Len(s) >= Len(pre) /\ SubSeq(s, 1, Len(pre)) = pre
    THEN SubSeq(s, Len(pre) + 1, Len(s))
    ELSE s

\* s without the literal suffix suf, when it ends with it.
RemoveSuffix(s, suf) ==
  IF Len(s) >= Len(suf) /\ SubSeq(s, Len(s) - Len(suf) + 1, Len(s)) = suf
    THEN SubSeq(s, 1, Len(s) - Len(suf))
    ELSE s

\* The text C7 describes: trimmed of surrounding whitespace, of the literal
\* opening fence and of the literal closing fence, and of nothing else.
LiteralStripFence(text) ==
  Strip(RemoveSuffix(RemovePrefix(Strip(text), FenceOpen), FenceClose))

\* The result C7 describes: the mapping, when that text is a JSON object; an
\* empty mapping on a service error and on any other text.
ParsedAsClaimed(resp) ==
  IF resp.error THEN EmptyDict
  ELSE LET r == JsonLoads(LiteralStripFence(resp.text))
       IN IF r.ok /\ r.val.kind = "dict" THEN r.val ELSE EmptyDict

\* C7: what infer_placeholders_with_gemini and get_data_from_gemini return is
\* the JSON object left after the response text is trimmed of whitespace and of
\* the literal fence prefix and suffix and nothing else, and an empty mapping
\* in every other case, so always a mapping.
C7_ParseLiteralFence ==
  [][/\ pc = "infer_parse" => inferred_template_data' = ParsedAsClaimed(response)
     /\ pc = "extract_parse" => final_extracted_data' = ParsedAsClaimed(response)]_vars

Rank(kind) ==
  CASE kind = "read_model" -> 1
    [] kind = "infer_call" -> 2
    [] kind = "read_pdf" -> 3
    [] kind = "extract_call" -> 4
    [] kind = "translate" -> 5
    [] kind = "load_model" -> 6
    [] kind = "write_output" -> 7

PhaseOrder == <<"read_model", "infer_call", "read_pdf", "extract_call">>

\* C8: the events of a run are a prefix of: read the model document, the
\* schema-inference call, read the PDF, the data-extraction call, translation
\* calls in the order of FIELDS_TO_TRANSLATE, the load and the write of the
\* output document.  No event but a translation call happens twice, no field
\* is translated twice, the write is the last event and comes only when the
\* translation loop is over, and while a function waits on the service the
\* call it made is the last event.
C8_FixedSequentialOrder ==
  /\ \A i \in DOMAIN events : i <= 4 => events[i].kind = PhaseOrder[i]
  /\ \A i, j \in DOMAIN events :
       i < j =>
         IF events[i].kind = "translate" /\ events[j].kind = "translate"
           THEN FieldIndex(events[i].field) < FieldIndex(events[j].field)
           ELSE Rank(events[i].kind) < Rank(events[j].kind)
  /\ HasEvent("write_output")
       => /\ events[Len(events)].kind = "write_output"
          /\ events[Len(events) - 1].kind = "load_model"
          /\ tidx = NumFields + 1
          /\ pc = "done"
  /\ output_file.exists => HasEvent("write_output")
  /\ pc = "infer_parse" => events[Len(events)].kind = "infer_call"
  /\ pc = "extract_parse" => events[Len(events)].kind = "extract_call"
  /\ response # NoResponse => pc \in {"infer_parse", "extract_parse"}

\* A whole run: two translation calls, then the output document written.
C8_Witness ==
  /\ pc = "done"
  /\ Written
  /\ Cardinality({i \in DOMAIN events : events[i].kind = "translate"}) = 2
  /\ Len(events) = 8

\* C9: translate_fields leaves the keys of the mapping and their order as
\* they were, leaves the value of every key that is not designated unchanged,
\* makes no call for a designated key that is absent or has an empty value and
\* leaves its value unchanged, and makes exactly one call for each designated
\* key present with a non-empty value that the loop has passed.
C9_TranslateKeepsStructure ==
  (data_at_entry.kind = "dict" /\ Truthy(data_at_entry))
    => /\ KeyList(final_extracted_data) = KeyList(data_at_entry)
       /\ \A k \in Keys(data_at_entry) \ Designated :
            Get(final_extracted_data, k) = Get(data_at_entry, k)
       /\ \A i \in DOMAIN events : events[i].kind = "translate" => events[i].field \in Designated
       /\ \A i \in 1..NumFields :
            LET f == FIELDS_TO_TRANSLATE[i]
            IN IF Live(data_at_entry, f)
                 THEN Cardinality(TranslateEventsOf(f)) = (IF i < tidx THEN 1 ELSE 0)
                 ELSE /\ TranslateEventsOf(f) = {}
                      /\ f \in Keys(data_at_entry)
                           => Get(final_extracted_data, f) = Get(data_at_entry, f)

\* The loop is over on a mapping holding a designated key with an empty
\* value and a designated key whose value a successful call replaced.
C9_Witness ==
  /\ pc = "generate"
  /\ data_at_entry.kind = "dict"
  /\ "document_title" \in Keys(data_at_entry)
  /\ ~Truthy(Get(data_at_entry, "document_title"))
  /\ Cardinality(TranslateEventsOf("ppe_notes")) = 1
  /\ Get(final_extracted_data, "ppe_notes") # Get(data_at_entry, "ppe_notes")

\* Every paragraph of a document: the body's, then those of every cell.
AllParas(d) == d.paragraphs \o Flatten(CellsOf(d))
\* The text of every run of a document, in that order.
AllRuns(d) == Flatten(AllParas(d))
\* A document with every run replaced by nothing: its paragraphs, tables,
\* rows and cells, and how many runs each paragraph has.
Shape(d) ==
  [paragraphs |-> [i \in DOMAIN d.paragraphs |-> Len(d.paragraphs[i])],
   tables |-> [t \in DOMAIN d.tables |->
                [r \in DOMAIN d.tables[t] |->
                  [c \in DOMAIN d.tables[t][r] |->
                    [q \in DOMAIN d.tables[t][r][c] |-> Len(d.tables[t][r][c][q])]]]]]

CommonKeys == Keys(inferred_template_data) \cap Keys(final_extracted_data)
OldOf(k) == Str(Get(inferred_template_data, k))
NewOf(k) == Str(Get(final_extracted_data, k))

\* C4: in the written document, for every key present in both mappings,
\* every run whose text in the model document was exactly the key's example
\* value holds the key's new value, and every run whose text contained the
\* example value has each occurrence of it replaced by the new value, the rest
\* of its text kept.
C4_EveryKeyReplaced ==
  (pc = "done" /\ Written)
    => \A k \in CommonKeys :
         \A i \in DOMAIN AllRuns(model_docx) :
           LET before == AllRuns(model_docx)[i]
               after == AllRuns(output_file.doc)[i]
           IN /\ before = OldOf(k) => after = NewOf(k)
              /\ Contains(before, OldOf(k)) => after = Replace(before, OldOf(k), NewOf(k))

\* C5: the step of docx_replace for one entry (old, new) leaves every run of
\* a paragraph unchanged when the paragraph's text contains old but no single
\* run of it does, and never changes how many paragraphs there are or how
\* many runs a paragraph has.
C5_SplitAcrossRunsUnchanged ==
  [][(pc = "replace" /\ ridx <= Len(replacements.pairs))
       => /\ Shape(doc') = Shape(doc)
          /\ \A i \in DOMAIN AllParas(doc) :
               LET p == AllParas(doc)[i]
                   old == replacements.pairs[ridx][1]
               IN (Contains(ParaText(p), old) /\ \A r \in DOMAIN p : ~Contains(p[r], old))
                    => AllParas(doc')[i] = p]_vars

\* The first entry has been applied: it rewrote a run somewhere, and a
\* paragraph that held its old text only across two runs is as it was.
C5_Witness ==
  /\ pc = "replace" /\ ridx = 2
  /\ doc # model_docx
  /\ \E i \in DOMAIN AllParas(model_docx) :
       LET p == AllParas(model_docx)[i]
           old == replacements.pairs[1][1]
       IN /\ Contains(ParaText(p), old)
          /\ \A r \in DOMAIN p : ~Contains(p[r], old)
          /\ AllParas(doc)[i] = p

\* C6: the replacements built by generate_final_document hold, for every key
\* present in both mappings, an entry from the stringified example value of
\* that key to the stringified new value of that key, and hold no entry that
\* comes from no such key.
C6_ReplacementSetComplete ==
  pc = "replace"
    => /\ \A k \in CommonKeys :
            \E i \in DOMAIN replacements.pairs :
              replacements.pairs[i] = <<OldOf(k), NewOf(k)>>
       /\ \A i \in DOMAIN replacements.pairs :
            \E k \in CommonKeys : replacements.pairs[i] = <<OldOf(k), NewOf(k)>>

RECURSIVE FoldReplace(_, _, _)
\* text after replace-all with each of the first n entries, one after another.
FoldReplace(text, pairs, n) ==
  IF n = 0 THEN text
  ELSE Replace(FoldReplace(text, pairs, n - 1), pairs[n][1], pairs[n][2])

====
